---- MODULE Spec2Model ----
(***************************************************************************)
(* Model of src/src/main.c: the fixed-timestep scheduler of main(), the    *)
(* integrator update_physics, the orbital initialiser orbital_velocity,    *)
(* the trail history add_trail_point and the trail toggle key_callback.    *)
(*                                                                         *)
(* Numbers.                                                                *)
(*  - Wall-clock quantities (frameTime, accumulator, fixedDt) are C floats.*)
(*    They are modelled exactly: a value is the integer n standing for     *)
(*    n * 2^-33 seconds, and every float operation rounds its exact result *)
(*    to 24 significant bits, ties to even (RoundF), as IEEE-754 binary32  *)
(*    does.  All modelled values are multiples of 2^-33 below 0.25 s.      *)
(*  - Body quantities (position, velocity, colour) are C floats modelled   *)
(*    in fixed point: the integer n stands for n / Q simulation units, and *)
(*    products and quotients truncate toward zero.  Masses and radii are   *)
(*    whole numbers and are kept as such.                                  *)
(*                                                                         *)
(* Environment.  The clock is monotonic (frame times are >= 0), float      *)
(* expressions are evaluated in binary32 (FLT_EVAL_METHOD 0), and realloc  *)
(* succeeds (add_trail_point does not check its result).                   *)
(***************************************************************************)
EXTENDS Integers, Sequences, FiniteSets

VARIABLES
    pc,            \* position of main(): "init", "ready", "loop", "drain", "render",
                   \* "poll", "done"; "phys" when update_physics is run on its own
    planets,       \* Planet planets[PLANET_COUNT]
    userPointer,   \* TRUE once glfwSetWindowUserPointer(window, planets) has run
    trailsOn,      \* static int trailsOn of key_callback
    accumulator,   \* float accumulator of main()
    frames,        \* history: iterations of the main loop started
    frameAcc,      \* history: accumulator at the start of the current frame
    frameTime,     \* history: clamped frameTime of the current frame
    rawFrameTime,  \* history: frameTime of the current frame before the clamp
    stepsInFrame,  \* history: physics steps run in the current frame
    totalSteps,    \* history: physics steps run since startup
    lastDt,        \* history: dt of the latest update_physics calls (-1: none yet)
    lastBody,      \* history: the bodies as they were before the latest update_physics calls
    runs,          \* two independent runs of the scheduler, compared for frame-rate independence
    calls          \* history: rounds of update_physics calls made when the function is run on its own

vars == <<pc, planets, userPointer, trailsOn, accumulator, frames, frameAcc,
          frameTime, rawFrameTime, stepsInFrame, totalSteps, lastDt, lastBody, runs, calls>>

-----------------------------------------------------------------------------
(* Bounds of the model *)

\* main-loop iterations explored
MaxFrames == 3
\* resolution of the fixed-point body quantities: 1/Q simulation units
Q == 50
\* largest coordinate magnitude (simulation units) the fixed-point squares can hold
MaxCoord == 6540
\* update_physics calls explored when the function is checked on its own
MaxCalls == 2

-----------------------------------------------------------------------------
(* Program constants *)

PLANET_COUNT == 8
TIME_MULTIPLIER == 100
\* G = 6.67430e-3f, as G_E8 * 10^-8
G_E8 == 667430
\* 0.001f = 8589935 * 2^-33
fixedDt == 8589935
\* 0.1f = 13421773 * 2^-27 = 858993472 * 2^-33
MaxFrameTime == 858993472
GLFW_PRESS == 1
GLFW_KEY_T == 84

Planets == 1..PLANET_COUNT
\* T and one other key (GLFW_KEY_SPACE)
Keys == {GLFW_KEY_T, 32}
\* GLFW_RELEASE, GLFW_PRESS, GLFW_REPEAT
KeyActions == 0..2

-----------------------------------------------------------------------------
(* binary32 arithmetic on wall-clock quantities (unit 2^-33 s) *)

RECURSIVE Ulp(_)
\* the spacing of binary32 values around n: the least power of two q with n < 2^24 * q
Ulp(n) == IF n < 2^24 THEN 1 ELSE 2 * Ulp(n \div 2)

\* n rounded to the nearest binary32 value, ties to the even significand
RoundF(n) ==
    LET q  == Ulp(n)
        lo == (n \div q) * q
        r  == n - lo
    IN  IF 2 * r < q THEN lo
        ELSE IF 2 * r > q THEN lo + q
        ELSE IF (lo \div q) % 2 = 0 THEN lo ELSE lo + q

FAdd(a, b) == RoundF(a + b)
FSub(a, b) == RoundF(a - b)
FMulInt(a, k) == RoundF(a * k)

-----------------------------------------------------------------------------
(* fixed-point arithmetic on body quantities (unit 1/Q) *)

Abs(a) == IF a < 0 THEN -a ELSE a
Sgn(a) == IF a < 0 THEN -1 ELSE 1
Min(a, b) == IF a < b THEN a ELSE b

\* 1.0f
One == Q
\* +infinity, the value binary32 gives x / 0 for x > 0
FxInf == 2^31 - 1

\* a * b; the product is split so that no intermediate leaves 32 bits
FxMul(a, b) ==
    Sgn(a) * Sgn(b) *
        (Abs(a) * (Abs(b) \div Q) + (Abs(a) * (Abs(b) % Q)) \div Q)

\* a / b for b # 0
FxDiv(a, b) == Sgn(a) * Sgn(b) * ((Abs(a) * Q) \div Abs(b))

RECURSIVE SqrtSearch(_, _, _)
\* the largest d in lo..hi-1 with d * d <= n, given lo * lo <= n < hi * hi
SqrtSearch(lo, hi, n) ==
    IF hi - lo <= 1 THEN lo
    ELSE LET mid == (lo + hi) \div 2
         IN  IF FxMul(mid, mid) <= n THEN SqrtSearch(mid, hi, n)
             ELSE SqrtSearch(lo, mid, n)

\* sqrtf(n) for n >= 0
FxSqrt(n) == SqrtSearch(0, MaxCoord * Q, n)

\* G * M for a whole-number mass M
GTimes(M) == ((M \div 1000) * G_E8) \div (100000 \div Q)

\* a wall-clock float (unit 2^-33) as a body quantity (unit 1/Q), to nearest
ToFx(u) == ((u \div 2^13) * Q + 2^19) \div 2^20

-----------------------------------------------------------------------------
(* Data *)

MkBody(x, mass, radius, r10, g10, b10) ==
    [x |-> x * Q, y |-> 0, vx |-> 0, vy |-> 0, mass |-> mass, radius |-> radius,
     r |-> (r10 * Q) \div 10, g |-> (g10 * Q) \div 10, b |-> (b10 * Q) \div 10]

MkPlanet(body) == [body |-> body, trail |-> <<>>, trailCount |-> 0, showTrail |-> 1]

sun == MkBody(0, 1989000, 30, 10, 10, 0)

\* the initialiser of planets[]: x = AU * SCALE_DISTANCE, mass, radius, colour in tenths
SourcePlanets ==
    <<MkPlanet(MkBody(  78,     330,  5,  5,  5,  5)),
      MkPlanet(MkBody( 144,    4870,  7, 10,  7,  0)),
      MkPlanet(MkBody( 200,    5972, 10,  0,  0, 10)),
      MkPlanet(MkBody( 304,     642,  8, 10,  0,  0)),
      MkPlanet(MkBody(1040, 1898000, 20, 10,  5,  0)),
      MkPlanet(MkBody(1916,  568000, 17, 10, 10,  5)),
      MkPlanet(MkBody(3840,   86800, 15,  5, 10, 10)),
      MkPlanet(MkBody(6010,  102000, 15,  0,  0,  5))>>

-----------------------------------------------------------------------------
(* Functions of main.c *)

\* float orbital_velocity(float M, float r): sqrtf(G * M / r)
orbital_velocity(M, r) ==
    IF r = 0 THEN FxInf ELSE FxSqrt(FxDiv(GTimes(M), r))

\* lines 206-210: one pass of the loop that sets the initial velocities
InitVelocity(p) ==
    LET r == FxSqrt(FxMul(p.body.x, p.body.x) + FxMul(p.body.y, p.body.y))
        v == orbital_velocity(sun.mass, r)
    IN  [p EXCEPT !.body.vx = 0, !.body.vy = v]

\* squared distance of body b to the attractor s
DistSq(b, s) ==
    LET dx == s.x - b.x
        dy == s.y - b.y
    IN  FxMul(dx, dx) + FxMul(dy, dy)

\* the early return of update_physics
TooClose(distSq) == distSq < One

\* explicit Euler: the position advanced by the velocity of before the step
EulerStep_Explicit(b, ax, ay, dt) ==
    [b EXCEPT !.vx = b.vx + FxMul(ax, dt), !.vy = b.vy + FxMul(ay, dt),
              !.x = b.x + FxMul(b.vx, dt),
              !.y = b.y + FxMul(b.vy, dt)]

\* the two assignment pairs of update_physics: velocity first, then position
\* from the velocity just written
EulerStep(b, ax, ay, dt) ==
    LET vx == b.vx + FxMul(ax, dt)
        vy == b.vy + FxMul(ay, dt)
    IN  [b EXCEPT !.vx = vx, !.vy = vy,
                  !.x = b.x + FxMul(vx, dt),
                  !.y = b.y + FxMul(vy, dt)]

\* lines 90-93 of update_physics: the acceleration of b toward s, for distSq >= 1
Accel(b, s) ==
    LET dx == s.x - b.x
        dy == s.y - b.y
        distSq == FxMul(dx, dx) + FxMul(dy, dy)
        dist  == FxSqrt(distSq)
        accel == FxDiv(GTimes(s.mass), distSq)
    IN  [ax |-> FxMul(accel, FxDiv(dx, dist)), ay |-> FxMul(accel, FxDiv(dy, dist))]

\* void update_physics(Body *planet, Body sun, float dt): the body afterwards
update_physics(b, s, dt) ==
    IF TooClose(DistSq(b, s)) THEN b
    ELSE EulerStep(b, Accel(b, s).ax, Accel(b, s).ay, dt)

\* malloc in place of realloc: the entries stored earlier are not carried over
Realloc_Fresh(trail, n) == [i \in 1..n |-> [x |-> 0, y |-> 0]]

\* realloc(trail, n * sizeof(Point)): the first min(old, n) entries are kept; a new
\* entry is indeterminate until written (add_trail_point writes it at once)
Realloc(trail, n) ==
    [i \in 1..n |-> IF i <= Len(trail) THEN trail[i] ELSE [x |-> 0, y |-> 0]]

\* void add_trail_point(Planet *p, float x, float y): the planet afterwards
add_trail_point(p, x, y) ==
    LET t == Realloc(p.trail, p.trailCount + 1)
    IN  [p EXCEPT !.trail = [t EXCEPT ![p.trailCount + 1] = [x |-> x, y |-> y]],
                  !.trailCount = p.trailCount + 1]

\* a loop that stops one planet short
ToggledPlanets_OffByOne == 1..(PLANET_COUNT - 1)

\* the planets key_callback writes trailsOn to
ToggledPlanets == Planets

\* a toggle that also discards the recorded trail
SetShowTrail_Clearing(p, v) ==
    [p EXCEPT !.showTrail = v, !.trailCount = 0, !.trail = <<>>]

\* planets[i].showTrail = trailsOn
SetShowTrail(p, v) == [p EXCEPT !.showTrail = v]

\* the condition under which key_callback acts
IsToggle(key, action) == action = GLFW_PRESS /\ key = GLFW_KEY_T

\* the frame time left unclamped
Clamp_Missing(t) == t

\* if (frameTime > 0.1f) frameTime = 0.1f;
Clamp(t) == IF t > MaxFrameTime THEN MaxFrameTime ELSE t

\* a draining loop that stops one comparison early
DrainCond_Strict(acc) == acc > fixedDt

\* the condition of the draining loop
DrainCond(acc) == acc >= fixedDt

\* fixedDt * TIME_MULTIPLIER, the dt main passes to update_physics
StepDt == ToFx(FMulInt(fixedDt, TIME_MULTIPLIER))

\* a pass that leaves the loop body early for a planet inside the distance floor
StepPlanet_SkipClose(p) ==
    IF DistSq(p.body, sun) < One THEN p
    ELSE LET b == update_physics(p.body, sun, StepDt)
         IN  add_trail_point([p EXCEPT !.body = b], b.x, b.y)

\* one pass of the for loop inside the draining loop, for planet p
StepPlanet(p) ==
    LET b == update_physics(p.body, sun, StepDt)
    IN  add_trail_point([p EXCEPT !.body = b], b.x, b.y)

RECURSIVE Drain(_, _)
\* the draining loop on the accumulator alone: the accumulator left and the steps run
Drain(acc, n) ==
    IF DrainCond(acc) THEN Drain(FSub(acc, fixedDt), n + 1)
    ELSE [acc |-> acc, steps |-> n]

\* the scheduler part of one loop iteration: clamp, accumulate, drain
FrameOf(acc, t) == Drain(FAdd(acc, Clamp(t)), 0)

-----------------------------------------------------------------------------
(* Initial states *)

\* a run of the scheduler on its own, as the loop is entered: the accumulator, the
\* physics steps run, the wall time fed in (the exact sum of the frame times), the frames.
\* Every step is [i \in Planets |-> StepPlanet(planets[i])], a function of the planets
\* alone, so the bodies of a run are a function of its number of steps.
NoRuns == [k \in {"A", "B"} |-> [acc |-> 0, steps |-> 0, total |-> 0, frames |-> 0]]

\* the state of main() once planets[] is initialised (line 201), for a given table
InitWith(table) ==
    /\ pc = "init"
    /\ planets = table
    /\ userPointer = FALSE
    /\ trailsOn = 1
    /\ accumulator = 0
    /\ frames = 0
    /\ frameAcc = 0
    /\ frameTime = 0
    /\ rawFrameTime = 0
    /\ stepsInFrame = 0
    /\ totalSteps = 0
    /\ lastDt = -1
    /\ lastBody = [i \in Planets |-> table[i].body]
    /\ runs = NoRuns
    /\ calls = 0

Init == InitWith(SourcePlanets)

-----------------------------------------------------------------------------
(* Steps of main() *)

\* lines 204-212: the loop that sets the initial velocities
OrbitInit ==
    /\ pc = "init"
    /\ planets' = [i \in Planets |-> InitVelocity(planets[i])]
    /\ pc' = "ready"
    /\ UNCHANGED <<userPointer, trailsOn, accumulator, frames, frameAcc, frameTime,
                   rawFrameTime, stepsInFrame, totalSteps, lastDt, lastBody, runs, calls>>

\* lines 214-218: glfwSetWindowUserPointer, prevTime, fixedDt, accumulator = 0
EnterLoop ==
    /\ pc = "ready"
    /\ userPointer' = TRUE
    /\ accumulator' = 0
    /\ pc' = "loop"
    /\ UNCHANGED <<planets, trailsOn, frames, frameAcc, frameTime, rawFrameTime,
                   stepsInFrame, totalSteps, lastDt, lastBody, runs, calls>>

\* lines 220-229: the loop test passes, frameTime t is measured, clamped and added
BeginFrame(t) ==
    /\ pc = "loop"
    /\ frames < MaxFrames
    /\ accumulator' = FAdd(accumulator, Clamp(t))
    /\ frames' = frames + 1
    /\ frameAcc' = accumulator
    /\ frameTime' = Clamp(t)
    /\ rawFrameTime' = t
    /\ stepsInFrame' = 0
    /\ pc' = "drain"
    /\ UNCHANGED <<planets, userPointer, trailsOn, totalSteps, lastDt, lastBody, runs, calls>>

\* lines 231-239: one iteration of the draining loop
PhysicsStep ==
    /\ pc = "drain"
    /\ DrainCond(accumulator)
    /\ planets' = [i \in Planets |-> StepPlanet(planets[i])]
    /\ accumulator' = FSub(accumulator, fixedDt)
    /\ stepsInFrame' = stepsInFrame + 1
    /\ totalSteps' = totalSteps + 1
    /\ lastDt' = StepDt
    /\ lastBody' = [i \in Planets |-> planets[i].body]
    /\ UNCHANGED <<pc, userPointer, trailsOn, frames, frameAcc, frameTime,
                   rawFrameTime, runs, calls>>

\* line 231 fails: the draining loop ends and control reaches render_scene
DrainExit ==
    /\ pc = "drain"
    /\ ~DrainCond(accumulator)
    /\ pc' = "render"
    /\ UNCHANGED <<planets, userPointer, trailsOn, accumulator, frames, frameAcc,
                   frameTime, rawFrameTime, stepsInFrame, totalSteps, lastDt,
                   lastBody, runs, calls>>

\* lines 241-244: render_scene and glfwSwapBuffers draw and change no program state;
\* glfwPollEvents begins
Render ==
    /\ pc = "render"
    /\ pc' = "poll"
    /\ UNCHANGED <<planets, userPointer, trailsOn, accumulator, frames, frameAcc,
                   frameTime, rawFrameTime, stepsInFrame, totalSteps, lastDt,
                   lastBody, runs, calls>>

\* key_callback, called by glfwPollEvents for one key event
KeyCallback(key, action) ==
    /\ pc = "poll"
    /\ IF IsToggle(key, action)
       THEN /\ trailsOn' = 1 - trailsOn
            /\ planets' = IF userPointer
                          THEN [i \in Planets |->
                                  IF i \in ToggledPlanets
                                  THEN SetShowTrail(planets[i], 1 - trailsOn)
                                  ELSE planets[i]]
                          ELSE planets
       ELSE UNCHANGED <<trailsOn, planets>>
    /\ UNCHANGED <<pc, userPointer, accumulator, frames, frameAcc, frameTime,
                   rawFrameTime, stepsInFrame, totalSteps, lastDt, lastBody, runs, calls>>

\* glfwPollEvents returns: back to the loop test
PollReturn ==
    /\ pc = "poll"
    /\ pc' = "loop"
    /\ UNCHANGED <<planets, userPointer, trailsOn, accumulator, frames, frameAcc,
                   frameTime, rawFrameTime, stepsInFrame, totalSteps, lastDt,
                   lastBody, runs, calls>>

\* lines 220, 247-251: glfwWindowShouldClose holds; every trail is freed and main returns
CloseWindow ==
    /\ pc = "loop"
    /\ planets' = [i \in Planets |-> [planets[i] EXCEPT !.trail = <<>>]]
    /\ pc' = "done"
    /\ UNCHANGED <<userPointer, trailsOn, accumulator, frames, frameAcc, frameTime,
                   rawFrameTime, stepsInFrame, totalSteps, lastDt, lastBody, runs, calls>>

\* frame times the clock may report (binary32, unit 2^-33 s):
\* 0, 0.002f, 2.5f * fixedDt, 0.004f, 0.016f and a 0.2f stall
FrameTimes == {0, 17179870, 21474838, 34359740, 137438960, 1717986944}

Next ==
    \/ OrbitInit
    \/ EnterLoop
    \/ \E t \in FrameTimes : BeginFrame(t)
    \/ PhysicsStep
    \/ DrainExit
    \/ Render
    \/ \E key \in Keys, action \in KeyActions : KeyCallback(key, action)
    \/ PollReturn
    \/ CloseWindow

Spec == Init /\ [][Next]_vars

-----------------------------------------------------------------------------
(* Two runs of the scheduler side by side: the same program fed two frame-time
   sequences, each loop iteration taken as one step *)

\* frame times at or below the clamp
PairFrameTimes == {t \in FrameTimes : t <= MaxFrameTime}

\* lines 220-245 for run k with frame time t
RunFrame(k, t) ==
    /\ runs[k].frames < MaxFrames
    /\ LET f == FrameOf(runs[k].acc, t)
       IN  runs' = [runs EXCEPT ![k] =
                      [acc    |-> f.acc,
                       steps  |-> runs[k].steps + f.steps,
                       total  |-> runs[k].total + t,
                       frames |-> runs[k].frames + 1]]
    /\ UNCHANGED <<pc, planets, userPointer, trailsOn, accumulator, frames, frameAcc,
                   frameTime, rawFrameTime, stepsInFrame, totalSteps, lastDt,
                   lastBody, calls>>

NextPair == \E k \in {"A", "B"}, t \in PairFrameTimes : RunFrame(k, t)

SpecPair == Init /\ [][NextPair]_vars

-----------------------------------------------------------------------------
(* update_physics on its own: bodies drawn from a bounded set, dt from PhysDts *)

\* positions (0, 0.5, 0.98, 2 and 78 units; 0, 0.8 and -3 units), velocities, and dt
PhysXs == {0, Q \div 2, (98 * Q) \div 100, 2 * Q, 78 * Q}
PhysYs == {0, (8 * Q) \div 10, -3 * Q}
PhysVxs == {0, -2 * Q}
PhysVys == {0, 13 * Q}
PhysDts == {0, StepDt}

InitPhys ==
    /\ \E x \in PhysXs, y \in PhysYs, vx \in PhysVxs, vy \in PhysVys :
          planets = [SourcePlanets EXCEPT ![1].body.x = x, ![1].body.y = y,
                                          ![1].body.vx = vx, ![1].body.vy = vy]
    /\ pc = "phys"
    /\ userPointer = FALSE
    /\ trailsOn = 1
    /\ accumulator = 0
    /\ frames = 0
    /\ frameAcc = 0
    /\ frameTime = 0
    /\ rawFrameTime = 0
    /\ stepsInFrame = 0
    /\ totalSteps = 0
    /\ lastDt = -1
    /\ lastBody = [i \in Planets |-> planets[i].body]
    /\ runs = NoRuns
    /\ calls = 0

\* update_physics(&planets[i].body, sun, dt) for every planet
PhysCall(dt) ==
    /\ pc = "phys"
    /\ calls < MaxCalls
    /\ planets' = [i \in Planets |->
                     [planets[i] EXCEPT !.body = update_physics(@, sun, dt)]]
    /\ lastDt' = dt
    /\ lastBody' = [i \in Planets |-> planets[i].body]
    /\ calls' = calls + 1
    /\ UNCHANGED <<pc, userPointer, trailsOn, accumulator, frames, frameAcc,
                   frameTime, rawFrameTime, stepsInFrame, totalSteps, runs>>

NextPhys == \E dt \in PhysDts : PhysCall(dt)

SpecPhys == InitPhys /\ [][NextPhys]_vars

-----------------------------------------------------------------------------
(* main() over a family of planet tables: the table of the source, and the table
   with one planet moved onto the attractor or inside the distance floor *)

\* initial x of the moved planet: 0 and 0.5 units
CfgXs == {0, Q \div 2}

\* 2.5f * fixedDt and 0.004f
CfgFrameTimes == {21474838, 34359740}

InitCfg ==
    \/ InitWith(SourcePlanets)
    \/ \E i \in Planets, x \in CfgXs :
          InitWith([SourcePlanets EXCEPT ![i].body.x = x])

NextCfg ==
    \/ OrbitInit
    \/ EnterLoop
    \/ \E t \in CfgFrameTimes : BeginFrame(t)
    \/ PhysicsStep
    \/ DrainExit
    \/ Render
    \/ \E key \in Keys, action \in KeyActions : KeyCallback(key, action)
    \/ PollReturn
    \/ CloseWindow

SpecCfg == InitCfg /\ [][NextCfg]_vars

-----------------------------------------------------------------------------
(* Properties *)

\* C1: whenever main reaches render_scene, 0 <= accumulator < fixedDt, for every
\* sequence of non-negative frame times.
C1_AccumulatorDrained ==
    pc = "render" => (0 <= accumulator /\ accumulator < fixedDt)

\* a frame that ran steps and reached render_scene with time left over
C1_Witness ==
    pc = "render" /\ stepsInFrame > 0 /\ accumulator > 0 /\ frames > 1

\* C2: a frame that starts with accumulator a and adds the clamped frame time t has
\* run exactly floor((a + t) / fixedDt) physics steps when its draining loop ends
\* (and so 2 steps from a = 0 with t = 2.5 * fixedDt).
C2_ExactFloor ==
    pc = "render" => stepsInFrame = (frameAcc + frameTime) \div fixedDt

\* C3: two runs fed frame times, none above the clamp, of the same total wall time
\* have run the same number of physics steps.
C3_FrameRateIndependent ==
    runs["A"].total = runs["B"].total => runs["A"].steps = runs["B"].steps

\* C4: the frame time enters the accumulator clamped to 0.1 s, and the draining loop
\* of one frame runs at most 100 physics steps.
C4_StepsBounded ==
    /\ stepsInFrame <= 100
    /\ (pc = "drain" /\ stepsInFrame = 0) =>
          accumulator = FAdd(frameAcc, Min(rawFrameTime, MaxFrameTime))

\* a stalled frame (frame time above the clamp) that ran the full 100 steps
C4_Witness ==
    pc = "render" /\ rawFrameTime > MaxFrameTime /\ stepsInFrame = 100

\* C5: while the loop runs every planet's trailCount is the number of physics steps
\* run since startup and the length of its trail; a physics step raises every
\* trailCount by exactly 1 and stores the planet's new position in the new entry; no
\* step lowers a trailCount or changes an entry stored earlier.
C5_TrailAppendOnly ==
    /\ [](pc # "done" =>
            \A i \in Planets : /\ planets[i].trailCount = totalSteps
                               /\ Len(planets[i].trail) = totalSteps)
    /\ [][PhysicsStep =>
            \A i \in Planets :
                /\ planets'[i].trailCount = planets[i].trailCount + 1
                /\ planets'[i].trail[planets'[i].trailCount] =
                       [x |-> planets'[i].body.x, y |-> planets'[i].body.y]]_vars
    /\ [][pc' # "done" =>
            \A i \in Planets :
                /\ planets'[i].trailCount >= planets[i].trailCount
                /\ \A k \in 1..planets[i].trailCount :
                       planets'[i].trail[k] = planets[i].trail[k]]_vars

\* trails grown over more than one frame
C5_Witness ==
    /\ pc = "render" /\ frames > 1 /\ stepsInFrame > 0 /\ totalSteps > stepsInFrame
    /\ \A i \in Planets : planets[i].trailCount = totalSteps

\* C6: key_callback changes nothing but trailsOn and the showTrail flags (trail
\* entries, trailCount, bodies and the accumulator stay as they are), and a physics
\* step taken while the trails are off still records a point for every planet.
C6_ToggleKeepsHistory ==
    /\ [][(\E key \in Keys, action \in KeyActions : KeyCallback(key, action)) =>
            /\ accumulator' = accumulator
            /\ \A i \in Planets : /\ planets'[i].body = planets[i].body
                                  /\ planets'[i].trail = planets[i].trail
                                  /\ planets'[i].trailCount = planets[i].trailCount]_vars
    /\ [][(PhysicsStep /\ trailsOn = 0) =>
            \A i \in Planets :
                planets'[i].trailCount = planets[i].trailCount + 1]_vars

\* trails switched off with history recorded before and during the off period
C6_Witness ==
    /\ pc = "render" /\ trailsOn = 0 /\ stepsInFrame > 0 /\ totalSteps > stepsInFrame
    /\ \A i \in Planets : planets[i].showTrail = 0 /\ planets[i].trailCount = totalSteps

\* C7: every planet's showTrail equals trailsOn in every state; a press of T flips
\* every planet's flag in that one event; any other key event leaves every flag as it
\* is; and no other step of the program changes a flag.
C7_FlagsUniform ==
    /\ [](\A i \in Planets : planets[i].showTrail = trailsOn)
    /\ [][KeyCallback(GLFW_KEY_T, GLFW_PRESS) =>
            \A i \in Planets : planets'[i].showTrail = 1 - planets[i].showTrail]_vars
    /\ [][(\E key \in Keys, action \in KeyActions :
              /\ ~(key = GLFW_KEY_T /\ action = GLFW_PRESS)
              /\ KeyCallback(key, action)) =>
            \A i \in Planets : planets'[i].showTrail = planets[i].showTrail]_vars
    /\ [][pc # "poll" =>
            \A i \in Planets : planets'[i].showTrail = planets[i].showTrail]_vars

\* the trails of all planets switched off by a press of T
C7_Witness ==
    trailsOn = 0 /\ pc = "poll" /\ \A i \in Planets : planets[i].showTrail = 0

\* C8: a call of update_physics on a body at squared distance >= 1.0 adds
\* acceleration * dt to the velocity and then the updated velocity * dt to the
\* position, so dt = 0 leaves both unchanged; no call changes mass, radius or colour.
C8_SemiImplicitEuler ==
    lastDt >= 0 =>
        \A i \in Planets :
            LET b0 == lastBody[i]
                b  == planets[i].body
            IN  /\ b.mass = b0.mass /\ b.radius = b0.radius
                /\ b.r = b0.r /\ b.g = b0.g /\ b.b = b0.b
                /\ DistSq(b0, sun) >= One =>
                      /\ b.vx = b0.vx + FxMul(Accel(b0, sun).ax, lastDt)
                      /\ b.vy = b0.vy + FxMul(Accel(b0, sun).ay, lastDt)
                      /\ b.x = b0.x + FxMul(b.vx, lastDt)
                      /\ b.y = b0.y + FxMul(b.vy, lastDt)
                      /\ lastDt = 0 => (b.x = b0.x /\ b.y = b0.y /\
                                        b.vx = b0.vx /\ b.vy = b0.vy)

\* a call with dt > 0 at distance >= 1 where the updated velocity moves the body
\* differently from the old one
C8_Witness ==
    /\ calls > 0 /\ lastDt > 0
    /\ DistSq(lastBody[1], sun) >= One
    /\ planets[1].body.vx # lastBody[1].vx
    /\ FxMul(planets[1].body.vx, lastDt) # FxMul(lastBody[1].vx, lastDt)
    /\ planets[1].body.x # lastBody[1].x

\* C9: in a physics step, a planet at squared distance < 1.0 keeps its position and
\* velocity, still gets a trail point (its unchanged position), the step still takes
\* fixedDt from the accumulator, and every planet at squared distance >= 1.0 is
\* still moved by update_physics.
C9_TooCloseIsNoOp ==
    [][PhysicsStep =>
        \A i \in Planets :
            DistSq(planets[i].body, sun) < One =>
                /\ planets'[i].body = planets[i].body
                /\ planets'[i].trailCount = planets[i].trailCount + 1
                /\ planets'[i].trail[planets'[i].trailCount] =
                       [x |-> planets[i].body.x, y |-> planets[i].body.y]
                /\ accumulator' = FSub(accumulator, fixedDt)
                /\ stepsInFrame' = stepsInFrame + 1
                /\ \A j \in Planets :
                       DistSq(planets[j].body, sun) >= One =>
                           /\ planets'[j].body # planets[j].body
                           /\ planets'[j].body =
                                  update_physics(planets[j].body, sun, StepDt)]_vars

\* a frame whose steps left a planet inside the distance floor where it was, with
\* its trail grown, while another planet moved
C9_Witness ==
    /\ pc = "render" /\ stepsInFrame > 0
    /\ \E i \in Planets :
          /\ DistSq(planets[i].body, sun) < One
          /\ planets[i].body = lastBody[i]
          /\ planets[i].trailCount = totalSteps
          /\ \E j \in Planets : planets[j].body # lastBody[j]

\* C10: with a planet at distance 0 from the sun, no velocity is assigned to it and
\* the simulation loop is never entered.
C10_FailFast ==
    \A i \in Planets :
        (planets[i].body.x = sun.x /\ planets[i].body.y = sun.y) =>
            /\ planets[i].body.vx = 0 /\ planets[i].body.vy = 0
            /\ pc \in {"init", "ready"}

====
